---- MODULE Spec2Model ----
(***************************************************************************)
(* Stock Info Terminal (src/app.py): the metrics functions                 *)
(* (calculate_cagr, calculate_annual_volatility), the two cached fetchers  *)
(* and the page script that calls them.                                    *)
(*                                                                         *)
(* Numbers.  Prices are integers.  A float the code rounds to two decimals *)
(* (round(x * 100, 2)) is carried as the integer count of hundredths of a  *)
(* percent, PctScale * x rounded to the nearest integer; roots are exact   *)
(* (computed on arbitrary-size naturals), so the model's value is the      *)
(* float result wherever the float result is not within one ulp of a       *)
(* rounding tie.  The IEEE outcomes of the code's unguarded divisions and  *)
(* powers (nan, inf, -inf) are kept as separate kinds of value.            *)
(***************************************************************************)
EXTENDS Integers, Sequences, FiniteSets, TLC

\* ------------------------------------------------------------------ bounds
\* The longest price series (observations) the provider returns.
MaxObs == 3
\* The largest adjusted-close price; prices range over -1 .. MaxPrice.
MaxPrice == 2
\* The longest price series under a column layout other than the provider's own.
LayoutObs == 2
\* The provider requests a behaviour makes per symbol and fetcher.
MaxCalls == 2

\* --------------------------------------------------------- program constants
\* days = 252 * yr
TradingDays == 252
\* annual_vol = daily_vol * np.sqrt(252)
AnnualFactor == 252
\* round(x * 100, 2): hundredths of a percent per unit
PctScale == 10000
\* calculate_cagr(history, [1, 3, 5])
Years == <<1, 3, 5>>

\* ------------------------------------------- arbitrary-size naturals (floats)
\* A natural as its limbs, least significant first, no leading zero limb.
Base == 10 * 10 * 10

\* The limbs of a natural below Base ^ 4 (a machine word).
BigFromNat(n) ==
  LET len == IF n = 0 THEN 0
             ELSE IF n < Base THEN 1
             ELSE IF n < Base * Base THEN 2
             ELSE IF n < Base * Base * Base THEN 3
             ELSE 4
      pw  == <<1, Base, Base * Base, Base * Base * Base>>
  IN  [i \in 1 .. len |-> (n \div pw[i]) % Base]

\* b * m for a natural m small enough that a limb times m fits a machine word.
BigMulSmall(b, m) ==
  LET n == Len(b)
      \* the carry into limb i
      carry[i \in 1 .. n + 1] ==
        IF i = 1 THEN 0 ELSE (b[i - 1] * m + carry[i - 1]) \div Base
  IN  IF m = 0 \/ n = 0 THEN << >>
      ELSE [i \in 1 .. n |-> (b[i] * m + carry[i]) % Base] \o BigFromNat(carry[n + 1])

BigPowSmall(m, y) ==
  LET pw[k \in 0 .. y] == IF k = 0 THEN <<1>> ELSE BigMulSmall(pw[k - 1], m)
  IN  pw[y]

BigLeq(a, b) ==
  IF Len(a) # Len(b) THEN Len(a) < Len(b)
  ELSE LET diff == {i \in 1 .. Len(a) : a[i] # b[i]}
           top  == CHOOSE i \in diff : \A j \in diff : j <= i
       IN  diff = {} \/ a[top] < b[top]

IntPow(m, y) ==
  LET pw[k \in 0 .. y] == IF k = 0 THEN 1 ELSE m * pw[k - 1]
  IN  pw[y]

\* k <= (num / den) ** (1 / y) + 1/2, i.e. k rounds to at most the root;
\* scaled is num * 2 ^ y.
RootAtLeast(scaled, den, y, k) ==
  k = 0 \/ BigLeq(BigMulSmall(BigPowSmall(2 * k - 1, y), den), scaled)

\* The bits of a rounded root: roots stay below 2 ^ RootBits.
RootBits == 4 * 5

\* (num / den) ** (1 / y) rounded to the nearest natural, found bit by bit from
\* the top; num a limb sequence, den a positive natural.
RoundRoot(num, den, y) ==
  LET scaled == BigMulSmall(num, IntPow(2, y))
      acc[i \in 0 .. RootBits] ==
        IF i = RootBits THEN 0
        ELSE LET above == acc[i + 1]
                 try   == above + IntPow(2, i)
             IN  IF RootAtLeast(scaled, den, y, try) THEN try ELSE above
  IN  acc[0]

Abs(x) == IF x < 0 THEN 0 - x ELSE x

Sign(x) == IF x < 0 THEN 0 - 1 ELSE IF x = 0 THEN 0 ELSE 1

\* ------------------------------------------------------------- price history
\* A column name is the sequence of its characters.
UpperChars == <<"A","B","C","D","E","F","G","H","I","J","K","L","M",
                "N","O","P","Q","R","S","T","U","V","W","X","Y","Z">>
LowerChars == <<"a","b","c","d","e","f","g","h","i","j","k","l","m",
                "n","o","p","q","r","s","t","u","v","w","x","y","z">>

ColClose      == <<"C","l","o","s","e">>
ColVolume     == <<"V","o","l","u","m","e">>
ColAdjClose   == <<"A","d","j"," ","C","l","o","s","e">>
ColAdjLower   == <<"a","d","j","c","l","o","s","e">>
ColAdjUpper   == <<"A","D","J"," ","C","L","O","S","E">>
ColAdjUnder   == <<"A","d","j","_","C","l","o","s","e">>

\* The column lists of the frames the provider returns.
Layouts ==
  { <<ColClose, ColVolume>>,
    <<ColClose, ColAdjClose>>,
    <<ColAdjLower, ColClose>>,
    <<ColClose, ColAdjUpper, ColAdjLower>>,
    <<ColAdjUnder, ColClose>> }

\* Calendar distances between consecutive observations: they put a series
\* just below, at and above the length of the 1-year and 5-year windows.
Gaps == {TradingDays - 2, TradingDays - 1, 4 * TradingDays}

Prices == (0 - 1) .. MaxPrice

RECURSIVE Reverse(_)
Reverse(s) == IF s = << >> THEN << >> ELSE Reverse(Tail(s)) \o <<Head(s)>>

RECURSIVE DatesFrom(_, _)
DatesFrom(d, gaps) ==
  IF gaps = << >> THEN <<d>> ELSE <<d>> \o DatesFrom(d + Head(gaps), Tail(gaps))

\* A frame: its column names, its index (dates, strictly increasing) and one
\* value sequence per column. Odd columns hold px, even columns px reversed.
Frame(cols, gaps, px) ==
  [ columns |-> cols,
    index   |-> IF px = << >> THEN << >> ELSE DatesFrom(0, gaps),
    data    |-> [j \in 1 .. Len(cols) |-> IF j % 2 = 1 THEN px ELSE Reverse(px)] ]

\* The provider's own column layout (auto_adjust=False keeps "Adj Close").
ProviderLayout == <<ColClose, ColAdjClose>>

\* ---------------------------------------------------------- metrics engine
\* The lower-case letter of each upper-case letter, and the converse.
LowerOf ==
  [ c \in {UpperChars[i] : i \in 1 .. Len(UpperChars)} |->
      LowerChars[CHOOSE i \in 1 .. Len(UpperChars) : UpperChars[i] = c] ]
UpperOf ==
  [ c \in {LowerChars[i] : i \in 1 .. Len(LowerChars)} |->
      UpperChars[CHOOSE i \in 1 .. Len(LowerChars) : LowerChars[i] = c] ]

\* col.lower()
LowerChar(c) == IF c \in DOMAIN LowerOf THEN LowerOf[c] ELSE c

Lower(name) == [i \in 1 .. Len(name) |-> LowerChar(name[i])]

\* .replace(" ", "")
RECURSIVE RemoveSpaces(_)
RemoveSpaces(name) ==
  IF name = << >> THEN << >>
  ELSE IF Head(name) = " " THEN RemoveSpaces(Tail(name))
  ELSE <<Head(name)>> \o RemoveSpaces(Tail(name))

AdjCloseKey == <<"a","d","j","c","l","o","s","e">>

IsAdjName(name) == RemoveSpaces(Lower(name)) = AdjCloseKey

\* The loop with the comparison made on the column name as it is, neither
\* lower-cased nor stripped of spaces.
ResolveAdjColExact(columns) ==
  IF \E j \in 1 .. Len(columns) : columns[j] = ColAdjClose
  THEN CHOOSE j \in 1 .. Len(columns) :
         /\ columns[j] = ColAdjClose
         /\ \A k \in 1 .. j - 1 : columns[k] # ColAdjClose
  ELSE 0

\* The for/break loop over history.columns: the position of the first column
\* whose normalised name is "adjclose", 0 for adj_col = None.
ResolveAdjCol(columns) ==
  IF \E j \in 1 .. Len(columns) : IsAdjName(columns[j])
  THEN CHOOSE j \in 1 .. Len(columns) :
         /\ IsAdjName(columns[j])
         /\ \A k \in 1 .. j - 1 : ~IsAdjName(columns[k])
  ELSE 0

\* Values a metric can hold: a number (hundredths of a percent), the "N/A"
\* marker, or an IEEE special.
Num(v) == [kind |-> "num", val |-> v]
NA     == [kind |-> "N/A", val |-> 0]
NaN    == [kind |-> "nan", val |-> 0]
PosInf == [kind |-> "inf", val |-> 0]
NegInf == [kind |-> "-inf", val |-> 0]

\* len(history[adj_col].resample('1D').ffill().dropna()): one row per calendar
\* day from the first observation to the last (no observation is null, so
\* dropna removes nothing).
DailyLen(index) == index[Len(index)] - index[1] + 1

\* .resample('1D').ffill(): row i is the latest observation on or before day i.
DailyFfill(index, col) ==
  [ i \in 1 .. DailyLen(index) |->
      col[CHOOSE j \in 1 .. Len(index) :
            /\ index[j] <= index[1] + i - 1
            /\ \A k \in 1 .. Len(index) : index[k] <= index[1] + i - 1 => k <= j] ]

\* The formula without the exponent 1 / yr: the total return of the window.
CagrValueNoRoot(end_price, start, yr) ==
  IF start = 0 THEN
    IF end_price = 0 THEN NaN
    ELSE IF end_price < 0 THEN NegInf
    ELSE PosInf
  ELSE
    Num(Sign(end_price) * Sign(start)
          * RoundRoot(BigFromNat(PctScale * Abs(end_price)), Abs(start), 1)
        - PctScale)

\* round((((end_price / start) ** (1 / yr)) - 1) * 100, 2) on numpy floats.
CagrValue(end_price, start, yr) ==
  IF start = 0 THEN
    IF end_price = 0 THEN NaN
    ELSE IF end_price < 0 /\ yr = 1 THEN NegInf
    ELSE PosInf
  ELSE IF (end_price < 0) # (start < 0) /\ end_price # 0 THEN
    \* a negative ratio: 1 / 1 is the exponent 1.0, any other exponent gives nan
    IF yr = 1
    THEN Num(0 - RoundRoot(BigFromNat(PctScale * Abs(end_price)), Abs(start), 1) - PctScale)
    ELSE NaN
  ELSE
    Num(RoundRoot(BigMulSmall(BigPowSmall(PctScale, yr), Abs(end_price)), Abs(start), yr)
        - PctScale)

\* The body of the loop over years.
CagrEntry(end_price, index, start_price, yr) ==
  LET days == TradingDays * yr
  IN  IF DailyLen(index) >= days
      THEN CagrValue(end_price, start_price[DailyLen(index) - days + 1], yr)
      ELSE NA

NoneResult == [kind |-> "None", table |-> << >>]

calculate_cagr(history, years) ==
  LET adj_col == ResolveAdjCol(history.columns)
  IN  IF adj_col = 0 \/ Len(history.index) = 0 THEN NoneResult
      ELSE LET col         == history.data[adj_col]
               end_price   == col[Len(col)]
               start_price == DailyFfill(history.index, col)
           IN  [ kind  |-> "dict",
                 table |-> [ i \in 1 .. Len(years) |->
                             [ period |-> years[i],
                               value  |-> CagrEntry(end_price, history.index,
                                                    start_price, years[i]) ] ] ]

SeqSum(s) ==
  LET sum[i \in 0 .. Len(s)] == IF i = 0 THEN 0 ELSE sum[i - 1] + s[i]
  IN  sum[Len(s)]

SeqProd(s) ==
  LET prod[i \in 0 .. Len(s)] == IF i = 0 THEN 1 ELSE prod[i - 1] * s[i]
  IN  prod[Len(s)]

\* np.std(daily_returns) * np.sqrt(252), times 100, rounded to 2 decimals, for
\* the returns col[i+1] / col[i] - 1 of a column with no zero before its last
\* value. The returns are carried over the common denominator d.
VolValue(col, ddof) ==
  LET n   == Len(col) - 1
      d   == SeqProd([i \in 1 .. n |-> Abs(col[i])])
      r   == [i \in 1 .. n |-> (col[i + 1] - col[i]) * Sign(col[i]) * (d \div Abs(col[i]))]
      sum == SeqSum(r)
      sq  == SeqSum([i \in 1 .. n |-> r[i] * r[i]])
      \* n * sum of squared deviations from the mean, times d * d
      dev == n * sq - sum * sum
  IN  IF n - ddof <= 0 THEN NaN
      ELSE Num(RoundRoot(
             BigMulSmall(BigMulSmall(BigMulSmall(BigFromNat(dev), AnnualFactor),
                                     PctScale), PctScale),
             n * (n - ddof) * d * d, 2))

\* The volatility with the sample standard deviation (divisor n - 1).
AnnualVolSample(col) ==
  IF \E i \in 1 .. Len(col) - 1 : col[i] = 0 THEN NaN
  ELSE VolValue(col, 1)

\* pct_change().dropna(), np.std, * np.sqrt(252), round(.. * 100, 2): a zero
\* price makes the next return inf (or nan, dropped), and the deviation nan.
AnnualVol(col) ==
  IF \E i \in 1 .. Len(col) - 1 : col[i] = 0 THEN NaN
  ELSE VolValue(col, 0)

NoneValue == [kind |-> "None", val |-> 0]

calculate_annual_volatility(history) ==
  LET adj_col == ResolveAdjCol(history.columns)
  IN  IF adj_col = 0 \/ Len(history.index) < 2 THEN NoneValue
      ELSE AnnualVol(history.data[adj_col])

\* ------------------------------------------------------- fetchers and page
\* query = st.text_input(...).upper()
UpperChar(c) == IF c \in DOMAIN UpperOf THEN UpperOf[c] ELSE c

Upper(text) == [i \in 1 .. Len(text) |-> UpperChar(text[i])]

\* What the user may type: nothing, or a ticker in either case.
Inputs == { << >>, <<"a">>, <<"A">>, <<"b">> }

Symbols == { Upper(t) : t \in Inputs \ {<< >>} }

\* The six fields shown as metrics, in the order the script reads them.
DisplayFields ==
  <<"sector", "industry", "marketCap", "currentPrice", "fiftyTwoWeekLow", "fiftyTwoWeekHigh">>

AllFields ==
  {"longName", "longBusinessSummary"} \cup {DisplayFields[i] : i \in 1 .. Len(DisplayFields)}

\* stock.info: None, or a mapping given by the set of the fields it holds.
NoneInfo == [none |-> TRUE, fields |-> {}]
Info(fields) == [none |-> FALSE, fields |-> fields]

\* What the provider answers to a profile request: an exception, or a profile
\* (complete, lacking marketCap, lacking every other optional field, lacking
\* longName, empty).
InfoAnswers ==
  { [raises |-> TRUE, fields |-> {}] }
  \cup { [raises |-> FALSE, fields |-> f] :
           f \in { AllFields,
                   AllFields \ {"marketCap"},
                   {"longName", "marketCap"},
                   AllFields \ {"longName"},
                   {} } }

EmptyFrame == Frame(ProviderLayout, << >>, << >>)

\* What the provider answers to a history request: an exception, or a frame
\* (no rows; rows without an adjusted close; rows with one).
HistoryAnswers ==
  { [raises |-> TRUE, frame |-> EmptyFrame] }
  \cup { [raises |-> FALSE, frame |-> f] :
           f \in { EmptyFrame,
                   Frame(<<ColClose, ColVolume>>, <<TradingDays - 1>>, <<1, 2>>),
                   Frame(ProviderLayout, <<TradingDays - 1>>, <<1, 2>>) } }

\* @st.cache_data: an entry per argument, holding the value the call returned.
Miss(value) == [hit |-> FALSE, value |-> value]
Hit(value)  == [hit |-> TRUE, value |-> value]

\* get_stock_info under @st.cache_data: a stored value is returned as it is;
\* otherwise the provider is invoked, its exception becomes None, and what
\* the function returns (None included) is stored.
get_stock_info(cache, symbol, answer) ==
  IF cache[symbol].hit
  THEN [ret |-> cache[symbol].value, cache |-> cache, invoked |-> FALSE, raised |-> FALSE]
  ELSE LET ret == IF answer.raises THEN NoneInfo ELSE Info(answer.fields)
       IN  [ ret     |-> ret,
             cache   |-> [cache EXCEPT ![symbol] = Hit(ret)],
             invoked |-> TRUE,
             raised  |-> FALSE ]

\* get_stock_history under @st.cache_data: no try; the provider's exception
\* leaves the function, and a call that raised stores nothing.
get_stock_history(cache, symbol, answer) ==
  IF cache[symbol].hit
  THEN [ret |-> cache[symbol].value, cache |-> cache, invoked |-> FALSE, raised |-> FALSE]
  ELSE IF answer.raises
  THEN [ret |-> EmptyFrame, cache |-> cache, invoked |-> TRUE, raised |-> TRUE]
  ELSE [ ret     |-> answer.frame,
         cache   |-> [cache EXCEPT ![symbol] = Hit(answer.frame)],
         invoked |-> TRUE,
         raised  |-> FALSE ]

\* A rendered element.
El(el, label, text) == [el |-> el, label |-> label, text |-> text]

Title       == El("title", "", "Stock Info Terminal")
TextInput   == El("text_input", "", "")
ErrorMsg    == El("error", "", "Incorrect symbol, please try again.")
Exception   == El("exception", "", "")
CsvButton   == El("download_button", "Download CSV", "company_data.csv")
PdfButton   == El("download_button", "Download PDF", "company_data.pdf")
Candlestick == El("pyplot", "candlestick", "")
LineChart   == El("pyplot", "adjusted close", "")
NoAdjWarn   == El("warning", "", "Adjusted close data not available for this symbol.")
CagrTable   == El("table", "Annualized Return (%)", "")
VolMetric   == El("metric", "Annual Volatility", "%")

\* The condition without the test for longName.
ProfileOkAnyFields(stock_info) ==
  /\ ~stock_info.none
  /\ stock_info.fields # {}

\* if stock_info and "longName" in stock_info
ProfileOk(stock_info) ==
  /\ ~stock_info.none
  /\ stock_info.fields # {}
  /\ "longName" \in stock_info.fields

\* stock_info.get(field, "N/A"), and the f"${...}" of the price fields.
FieldText(stock_info, field) ==
  LET got == IF field \in stock_info.fields THEN "value" ELSE "N/A"
  IN  IF field \in {"sector", "industry"} THEN got
      ELSE IF got = "value" THEN "$value" ELSE "$N/A"

\* f"${stock_info.get('marketCap', 'N/A'):,}": the "," format of the string
\* "N/A" raises ValueError.
FormatRaises(stock_info, field) == field = "marketCap" /\ field \notin stock_info.fields

\* The metrics of col1 and col2, in order, up to the first one whose
\* formatting raises.
RECURSIVE Metrics(_, _)
Metrics(stock_info, i) ==
  IF i > Len(DisplayFields) THEN << >>
  ELSE IF FormatRaises(stock_info, DisplayFields[i]) THEN <<Exception>>
  ELSE <<El("metric", DisplayFields[i], FieldText(stock_info, DisplayFields[i]))>>
       \o Metrics(stock_info, i + 1)

\* The name, the description and the metrics.
ProfileSection(stock_info) ==
  << El("subheader", "longName", "value"),
     El("write", "longBusinessSummary",
        IF "longBusinessSummary" \in stock_info.fields
        THEN "value" ELSE "No description available.") >>
  \o Metrics(stock_info, 1)

\* if not history.empty: the two charts, the CAGR table and the volatility.
HistorySection(frame, cagr_data, vol) ==
  IF Len(frame.index) = 0 THEN << >>
  ELSE <<Candlestick>>
       \o (IF ResolveAdjCol(frame.columns) = 0 THEN <<NoAdjWarn>> ELSE <<LineChart>>)
       \o (IF cagr_data.kind = "dict" /\ Len(cagr_data.table) > 0
           THEN <<CagrTable>> ELSE << >>)
       \o (IF vol.kind # "None" THEN <<VolMetric>> ELSE << >>)

ExportSection == <<CsvButton, PdfButton>>

Unset == [kind |-> "unset", val |-> 0]
UnsetResult == [kind |-> "unset", table |-> << >>]

\* ------------------------------------------------------------------- state
VARIABLES
  history,        \* the frame the metrics functions are applied to
  cagr_results,   \* what calculate_cagr returned for it
  annual_vol,     \* what calculate_annual_volatility returned for it
  query,          \* the symbol of the last run, upper-cased
  stock_info,     \* what get_stock_info returned in the last run
  page,           \* the elements the last run rendered, in order
  raised,         \* the exception that ended the last run: "none", "ValueError", "ProviderError"
  history_called, \* whether the last run called get_stock_history
  info_cache,     \* get_stock_info's cache: symbol -> entry
  history_cache,  \* get_stock_history's cache: symbol -> entry
  info_calls,     \* provider profile requests made, per symbol
  history_calls,  \* provider history requests made, per symbol
  info_offered,   \* whether the provider would have answered a profile request of the
                  \* last run with a profile that holds longName
  info_failed     \* the symbols whose profile request has raised

mvars == <<history, cagr_results, annual_vol>>
pvars == <<query, stock_info, page, raised, history_called, info_cache, history_cache,
           info_calls, history_calls, info_offered, info_failed>>
vars  == <<history, cagr_results, annual_vol, query, stock_info, page, raised,
           history_called, info_cache, history_cache, info_calls, history_calls,
           info_offered, info_failed>>

\* The process before any query: empty caches, an empty page.
InitPage ==
  /\ query = << >>
  /\ stock_info = NoneInfo
  /\ page = <<Title, TextInput>>
  /\ raised = "none"
  /\ history_called = FALSE
  /\ info_cache = [s \in Symbols |-> Miss(NoneInfo)]
  /\ history_cache = [s \in Symbols |-> Miss(EmptyFrame)]
  /\ info_calls = [s \in Symbols |-> 0]
  /\ history_calls = [s \in Symbols |-> 0]
  /\ info_offered = FALSE
  /\ info_failed = {}

Init ==
  /\ InitPage
  /\ history = EmptyFrame
  /\ cagr_results = UnsetResult
  /\ annual_vol = Unset

\* A run that does not reach the history fetch leaves the script's history,
\* cagr_data and annual_vol unassigned.
Fresh ==
  /\ history' = EmptyFrame
  /\ cagr_results' = UnsetResult
  /\ annual_vol' = Unset

\* One run of the script on the text typed, the provider answering ia to a
\* profile request and ha to a history request if the run makes them.
RunScript(typed, ia, ha) ==
  LET q    == Upper(typed)
      got  == get_stock_info(info_cache, q, ia)
      hist == get_stock_history(history_cache, q, ha)
      head == ProfileSection(got.ret)
      cut  == \E i \in 1 .. Len(head) : head[i] = Exception
  IN  /\ query' = q
      /\ info_offered' = (~ia.raises /\ "longName" \in ia.fields)
      /\ IF q = << >>
         THEN \* if query: nothing below the input is run
              /\ page' = <<Title, TextInput>>
              /\ stock_info' = NoneInfo
              /\ raised' = "none"
              /\ history_called' = FALSE
              /\ Fresh
              /\ UNCHANGED <<info_cache, history_cache, info_calls, history_calls,
                             info_failed>>
         ELSE /\ got.invoked => info_calls[q] < MaxCalls
              /\ stock_info' = got.ret
              /\ info_cache' = got.cache
              /\ info_calls' = IF got.invoked THEN [info_calls EXCEPT ![q] = @ + 1]
                               ELSE info_calls
              /\ info_failed' = IF got.invoked /\ ia.raises THEN info_failed \cup {q}
                                ELSE info_failed
              /\ IF ~ProfileOk(got.ret)
                 THEN /\ page' = <<Title, TextInput, ErrorMsg>>
                      /\ raised' = "none"
                      /\ history_called' = FALSE
                      /\ Fresh
                      /\ UNCHANGED <<history_cache, history_calls>>
                 ELSE IF cut
                 THEN /\ page' = <<Title, TextInput>> \o head
                      /\ raised' = "ValueError"
                      /\ history_called' = FALSE
                      /\ Fresh
                      /\ UNCHANGED <<history_cache, history_calls>>
                 ELSE /\ hist.invoked => history_calls[q] < MaxCalls
                      /\ history_called' = TRUE
                      /\ history_cache' = hist.cache
                      /\ history_calls' = IF hist.invoked
                                          THEN [history_calls EXCEPT ![q] = @ + 1]
                                          ELSE history_calls
                      /\ IF hist.raised
                         THEN /\ page' = <<Title, TextInput>> \o head \o <<Exception>>
                              /\ raised' = "ProviderError"
                              /\ Fresh
                         ELSE \* cagr_data and annual_vol are assigned only
                              \* under "if not history.empty"
                              /\ history' = hist.ret
                              /\ cagr_results' =
                                   IF Len(history'.index) = 0 THEN UnsetResult
                                   ELSE calculate_cagr(history', Years)
                              /\ annual_vol' =
                                   IF Len(history'.index) = 0 THEN Unset
                                   ELSE calculate_annual_volatility(history')
                              /\ page' = <<Title, TextInput>> \o head
                                         \o HistorySection(history', cagr_results',
                                                           annual_vol')
                                         \o ExportSection
                              /\ raised' = "none"

\* The provider answers a history request only when one is made: a run whose
\* symbol is blank or already in get_stock_history's cache makes none.
HistoryOffers(q) ==
  IF q # << >> /\ ~history_cache[q].hit THEN HistoryAnswers
  ELSE { [raises |-> FALSE, frame |-> EmptyFrame] }

Run == \E typed \in Inputs, ia \in InfoAnswers :
         \E ha \in HistoryOffers(Upper(typed)) : RunScript(typed, ia, ha)

Next == Run

Spec == Init /\ [][Next]_vars

\* ------------------------------------------- the metrics functions on their own
\* The provider's own layout with series of up to MaxObs observations, every
\* other layout with series of up to LayoutObs observations.
InitMetrics ==
  /\ \E n \in 0 .. MaxObs, cols \in Layouts \cup {ProviderLayout} :
       /\ cols = ProviderLayout \/ n <= LayoutObs
       /\ \E gaps \in [1 .. n - 1 -> Gaps], px \in [1 .. n -> Prices] :
            history = Frame(cols, gaps, px)
  /\ cagr_results = UnsetResult
  /\ annual_vol = Unset
  /\ InitPage

ApplyCagr ==
  /\ cagr_results = UnsetResult
  /\ cagr_results' = calculate_cagr(history, Years)
  /\ UNCHANGED <<history, annual_vol>>
  /\ UNCHANGED pvars

\* The script calls it after calculate_cagr.
ApplyVolatility ==
  /\ cagr_results # UnsetResult
  /\ annual_vol = Unset
  /\ annual_vol' = calculate_annual_volatility(history)
  /\ UNCHANGED <<history, cagr_results>>
  /\ UNCHANGED pvars

NextMetrics == ApplyCagr \/ ApplyVolatility

SpecMetrics == InitMetrics /\ [][NextMetrics]_vars

\* ----------------------------------------------- claims on the metrics engine
\* The names the spec lists for the adjusted-close column.
AdjNames == {ColAdjClose, ColAdjLower, ColAdjUpper}

\* The first column of the frame that carries one of those names, 0 if none.
FirstAdj(h) ==
  IF \E j \in 1 .. Len(h.columns) : h.columns[j] \in AdjNames
  THEN CHOOSE j \in 1 .. Len(h.columns) :
         /\ h.columns[j] \in AdjNames
         /\ \A k \in 1 .. Len(h.columns) : h.columns[k] \in AdjNames => j <= k
  ELSE 0

Computed(result) == result.kind # "unset"

\* The date 252 * y daily rows before the end of the series (the end being one
\* row past the last date).
WindowStartDate(h, y) == h.index[Len(h.index)] - TradingDays * y + 1

HasWindow(h, y) == Len(h.index) > 0 /\ WindowStartDate(h, y) >= h.index[1]

\* The price in force on that date: that of the latest observation on or before it.
WindowStartPrice(h, y) ==
  LET d == WindowStartDate(h, y)
      j == CHOOSE j \in 1 .. Len(h.index) :
             /\ h.index[j] <= d
             /\ \A k \in 1 .. Len(h.index) : h.index[k] <= d => h.index[k] <= h.index[j]
  IN  h.data[FirstAdj(h)][j]

LastPrice(h) == h.data[FirstAdj(h)][Len(h.index)]

\* (1 + cagr) ^ y * start_price = end_price, to within the half unit u of the
\* rounding (cagr = r / PctScale, u = 1 / (2 * PctScale)):
\*   (1 + cagr - u) ^ y * |start| <= |end| < (1 + cagr + u) ^ y * |start|.
Compounds(r, e, s, y) ==
  IF y = 1
  THEN 2 * Abs((r + PctScale) * s - PctScale * e) <= Abs(s)
  ELSE LET k   == r + PctScale
           rhs == BigMulSmall(BigPowSmall(2 * PctScale, y), Abs(e))
       IN  /\ k >= 0
           /\ Sign(e) * Sign(s) >= 0
           /\ k = 0 \/ BigLeq(BigMulSmall(BigPowSmall(2 * k - 1, y), Abs(s)), rhs)
           /\ ~BigLeq(BigMulSmall(BigPowSmall(2 * k + 1, y), Abs(s)), rhs)

\* C1: every value calculate_cagr reports for a window of Y years is
\* round(100 * ((end_price / start_price) ^ (1 / Y) - 1), 2), with end_price the
\* last adjusted-close observation and start_price the row 252 * Y rows before
\* the end of the daily forward-filled series: (1 + cagr) ^ Y * start_price is
\* end_price within the rounding.
C1_CagrCompounds ==
  cagr_results.kind = "dict" =>
    \A i \in 1 .. Len(cagr_results.table) :
      LET ent == cagr_results.table[i]
      IN  /\ ent.period = Years[i]
          /\ ent.value.kind # "N/A" => HasWindow(history, ent.period)
          /\ ent.value.kind = "num" =>
               Compounds(ent.value.val, LastPrice(history),
                         WindowStartPrice(history, ent.period), ent.period)

\* A three-year window over a doubled price: 25.99 %.
C1_Witness ==
  /\ cagr_results.kind = "dict"
  /\ cagr_results.table[2].value = Num(2599)
  /\ LastPrice(history) = 2 * WindowStartPrice(history, 3)

\* C2: a series of fewer than 252 * Y observations has "N/A" for window Y,
\* however many calendar days it spans.
C2_FewObservationsUnavailable ==
  cagr_results.kind = "dict" =>
    \A i \in 1 .. Len(cagr_results.table) :
      Len(history.index) < TradingDays * cagr_results.table[i].period
        => cagr_results.table[i].value = NA

\* C3: a window whose start_price is zero or negative has "N/A", and no window
\* holds nan or an infinity.
C3_NonPositiveStartUnavailable ==
  cagr_results.kind = "dict" =>
    \A i \in 1 .. Len(cagr_results.table) :
      LET ent == cagr_results.table[i]
      IN  /\ ent.value.kind \notin {"nan", "inf", "-inf"}
          /\ (HasWindow(history, ent.period)
              /\ WindowStartPrice(history, ent.period) <= 0) => ent.value = NA

Unresolved(h) == FirstAdj(h) = 0 \/ Len(h.index) = 0

ReturnOver(col, i, d) == (col[i + 1] - col[i]) * Sign(col[i]) * (d \div Abs(col[i]))

\* n * n * d * d times the population variance of the returns: the sum over
\* the pairs i < j of the squared differences of the returns.
PairSpread(col, d) ==
  LET n == Len(col) - 1
  IN  SeqSum([ p \in 1 .. n * n |->
               LET i == ((p - 1) \div n) + 1
                   j == ((p - 1) % n) + 1
                   x == ReturnOver(col, i, d) - ReturnOver(col, j, d)
               IN  IF i < j THEN x * x ELSE 0 ])

\* v is 100 * sqrt(252) * (population standard deviation of the returns of
\* col), rounded to two decimals: (v - 1/2) ^ 2 <= PctScale ^ 2 * 252 * var <
\* (v + 1/2) ^ 2.
IsAnnualisedPopulationStd(v, col) ==
  LET n   == Len(col) - 1
      d   == SeqProd([i \in 1 .. n |-> Abs(col[i])])
      rhs == BigMulSmall(BigMulSmall(BigMulSmall(BigFromNat(PairSpread(col, d)),
                                                 4 * AnnualFactor), PctScale), PctScale)
  IN  /\ v >= 0
      /\ v = 0 \/ BigLeq(BigMulSmall(BigPowSmall(2 * v - 1, 2), n * n * d * d), rhs)
      /\ ~BigLeq(BigMulSmall(BigPowSmall(2 * v + 1, 2), n * n * d * d), rhs)

ZeroBeforeLast(col) == \E i \in 1 .. Len(col) - 1 : col[i] = 0

Constant(col) == \A i \in 1 .. Len(col) : col[i] = col[1]

OnPage(e) == \E i \in 1 .. Len(page) : page[i] = e

\* The charts, the CAGR table, the volatility metric and the export controls.
HistoryAndExport ==
  {Candlestick, LineChart, NoAdjWarn, CagrTable, VolMetric, CsvButton, PdfButton}

ErrorView == <<Title, TextInput, ErrorMsg>>

NamedProfile == ~stock_info.none /\ "longName" \in stock_info.fields

\* C6: a run on a non-empty query whose profile is absent or has no longName
\* renders the "incorrect symbol" message alone and makes no history fetch;
\* the message never appears together with a chart, the CAGR table, the
\* volatility metric or an export control.
C6_ErrorViewAlone ==
  /\ (query # << >> /\ ~NamedProfile) =>
       /\ page = ErrorView
       /\ ~history_called
       /\ history = EmptyFrame
  /\ OnPage(ErrorMsg) =>
       /\ query # << >> /\ ~NamedProfile
       /\ \A e \in HistoryAndExport : ~OnPage(e)

\* A profile that holds fields but no longName, answered by the provider.
C6_Witness ==
  /\ query # << >>
  /\ info_calls[query] = 1
  /\ ~stock_info.none
  /\ "sector" \in stock_info.fields
  /\ "longName" \notin stock_info.fields
  /\ page = ErrorView

\* C7: on a provider exception get_stock_info returns None and
\* get_stock_history returns an empty frame; no provider exception leaves
\* either function.
C7_FetchersNeverRaise ==
  /\ (query # << >> /\ query \in info_failed) => stock_info = NoneInfo
  /\ raised # "ProviderError"

\* The text a metric shows for a display field: the "N/A" fallback for a field
\* the profile lacks.
ShownWithFallback(field) ==
  \E i \in 1 .. Len(page) :
    /\ page[i].el = "metric"
    /\ page[i].label = field
    /\ field \notin stock_info.fields => page[i].text \in {"N/A", "$N/A"}

\* C8: for a profile with longName every one of the six display fields is
\* shown, a missing one as "N/A", and the run goes on to the history fetch and
\* the export section; a missing field never ends the run.
C8_MissingFieldFallsBack ==
  (query # << >> /\ NamedProfile) =>
    /\ raised # "ValueError"
    /\ \A i \in 1 .. Len(DisplayFields) : ShownWithFallback(DisplayFields[i])
    /\ history_called
    /\ raised = "none" => OnPage(CsvButton) /\ OnPage(PdfButton)

\* A cache entry, once stored, stays as it is.
EntriesKept ==
  \A s \in Symbols :
    /\ info_cache[s].hit => info_cache'[s] = info_cache[s]
    /\ history_cache[s].hit => history_cache'[s] = history_cache[s]

\* C9: over any sequence of runs the provider is asked at most once per symbol
\* for the profile and at most once per symbol for the history, and a stored
\* entry is never changed or dropped (so every later run of the symbol gets
\* what the first fetch returned).
C9_ProviderAskedOncePerSymbol ==
  /\ [](\A s \in Symbols : info_calls[s] <= 1 /\ history_calls[s] <= 1)
  /\ [][EntriesKept]_vars

\* C10: a run on a symbol whose profile request raised in an earlier run, made
\* when the provider would answer with a named profile, renders the profile
\* and not the error message.
C10_PastFailureForgotten ==
  (query # << >> /\ query \in info_failed /\ info_offered) =>
    /\ ~OnPage(ErrorMsg)
    /\ OnPage(El("subheader", "longName", "value"))

====
